---- MODULE Spec2Model ----
(***************************************************************************)
(* A model of llvm/ExecutionEngine/Orc/RPCChannel.h: the RPCChannel byte   *)
(* stream interface with its two mutexes, the four message framing         *)
(* functions, and the serialize/deserialize overload set.                  *)
(*                                                                         *)
(* Two state machines share the module.  CodecSpec runs one serializeSeq   *)
(* call and one deserializeSeq call of a single caller over a channel      *)
(* whose appendBytes/readBytes fail from a scripted call on.  Spec runs    *)
(* several threads that share one channel and frame their codec calls      *)
(* with start/end SendMessage and start/end ReceiveMessage; FairSpec is    *)
(* Spec with weak fairness of every thread.                                *)
(***************************************************************************)
EXTENDS Integers, Sequences, FiniteSets, TLC

VARIABLES
  host,       \* byte order of the machine that serializes (and runs the threads)
  peer,       \* byte order of the machine that deserializes
  args,       \* CodecSpec: the argument list handed to serializeSeq
  wFail,      \* CodecSpec: first appendBytes call that fails (0: none does)
  rFail,      \* CodecSpec: first readBytes call that fails (0: none does)
  phase,      \* CodecSpec: "init", "sent" or "received"
  chan,       \* CodecSpec: the channel's state
  ret,        \* CodecSpec: the std::error_code the last codec call returned
  got,        \* CodecSpec: the destinations after deserializeSeq
  readLock,   \* Spec: owner of RPCChannel::readLock (NoThread: unlocked)
  writeLock,  \* Spec: owner of RPCChannel::writeLock (NoThread: unlocked)
  pc,         \* Spec: the call each thread is inside
  sendSt,     \* Spec: each thread's send section: "out", "open", "ok", "err"
  recvSt,     \* Spec: each thread's receive section: "out", "open", "ok", "err"
  todo,       \* Spec: appendBytes calls the thread's serializeSeq has yet to make
  rtodo,      \* Spec: readBytes calls the thread's deserializeSeq has yet to make
  nsect,      \* Spec: framed sections each thread has started
  wire        \* Spec: the successful appendBytes calls, in the order they ran

codecVars == <<args, wFail, rFail, phase, chan, ret, got, peer>>
threadVars == <<readLock, writeLock, pc, sendSt, recvSt, todo, rtodo, nsect, wire>>
vars == <<host, codecVars, threadVars>>

---------------------------------------------------------------------------
(* Bounds of the model. *)

\* longest byte string whose bytes are all written out
MaxStrLen == 2
\* longest vector
MaxVecLen == 2
\* longest argument list of serializeSeq / deserializeSeq
MaxArgs == 2
\* latest channel call a script makes the first failing one
MaxFail == 3
\* number of threads sharing the channel
NumThreads == 2
\* framed sections the threads start, all together
MaxSections == 4

---------------------------------------------------------------------------
(* Fixed-width integers are kept as their bit pattern: the sequence of     *)
(* their bytes, most significant first (a 64-bit value does not fit a      *)
(* model-checker integer).  Object representations depend on the host.     *)

Hosts == {"little", "big"}

Reverse(s) == [i \in 1..Len(s) |-> s[Len(s) + 1 - i]]

Zeros(n) == [i \in 1..n |-> 0]

RECURSIVE ToDigits(_, _)
ToDigits(n, w) ==
  IF w = 0 THEN <<>> ELSE Append(ToDigits(n \div 256, w - 1), n % 256)

RECURSIVE ToNat(_)
ToNat(d) ==
  IF d = <<>> THEN 0 ELSE ToNat(SubSeq(d, 1, Len(d) - 1)) * 256 + d[Len(d)]

\* reinterpret_cast<char *>(&V): the bytes of an integer object in memory
ObjectBytes(d, h) == IF h = "big" THEN d ELSE Reverse(d)

\* support::endian::byte_swap<T, support::big>(V): V converted between host
\* order and big-endian order, in place
byte_swap(d, h) == IF h = "big" THEN d ELSE Reverse(d)

\* sizeof(T) as the `unsigned Size` argument
SizeOf(w) == ToDigits(w, 4)

\* a size_t or uint64_t converted to the `unsigned Size` parameter
Narrow32(d8) == SubSeq(d8, Len(d8) - 3, Len(d8))

---------------------------------------------------------------------------
(* The channel.  Every call is logged with the size it was given.  The     *)
(* k-th call of a direction fails with the error code k from the scripted  *)
(* call on; readBytes also fails when the stream holds fewer bytes than    *)
(* asked for.                                                              *)

NewChannel(wf, rf) ==
  [wlog |-> <<>>, rlog |-> <<>>, inp |-> <<>>, wFail |-> wf, rFail |-> rf]

appendBytes(C, Src, Size) ==
  LET k == Len(C.wlog) + 1
      fails == C.wFail # 0 /\ k >= C.wFail
      data == IF fails THEN <<>> ELSE SubSeq(Src, 1, ToNat(Size))
  IN [ec |-> IF fails THEN k ELSE 0,
      C |-> [C EXCEPT !.wlog = Append(@, [size |-> Size, data |-> data,
                                          ok |-> ~fails])]]

readBytes(C, Size) ==
  LET k == Len(C.rlog) + 1
      short == Size[1] # 0 \/ ToNat(Size) > Len(C.inp)
      fails == (C.rFail # 0 /\ k >= C.rFail) \/ short
      n == IF fails THEN 0 ELSE ToNat(Size)
  IN [ec |-> IF fails THEN k ELSE 0,
      data |-> SubSeq(C.inp, 1, n),
      C |-> [C EXCEPT !.rlog = Append(@, [size |-> Size, ok |-> ~fails]),
                      !.inp = SubSeq(@, n + 1, Len(@))]]

RECURSIVE Flatten(_)
Flatten(ss) == IF ss = <<>> THEN <<>> ELSE Head(ss) \o Flatten(Tail(ss))

\* the bytes the channel's appendBytes calls put on the stream
Out(C) == Flatten([i \in 1..Len(C.wlog) |-> C.wlog[i].data])

---------------------------------------------------------------------------
(* Values and their static shapes.  A string is its 64-bit size, its       *)
(* leading bytes written out (`head`) and the byte every later position    *)
(* holds (`fill`); a string of at most MaxStrLen bytes is all head.        *)

IntV(w, s, d) == [k |-> "int", w |-> w, s |-> s, d |-> d]
BoolV(b) == [k |-> "bool", b |-> b]
StrV(size, head, fill) == [k |-> "string", size |-> size, head |-> head, fill |-> fill]
TupleV(fs) == [k |-> "tuple", fs |-> fs]
VectorV(e, es) == [k |-> "vector", e |-> e, es |-> es]

U8(n) == IntV(1, FALSE, ToDigits(n, 1))
U64(d) == IntV(8, FALSE, d)
SmallStr(bs) == StrV(ToDigits(Len(bs), 8), bs, 0)

RECURSIVE ShapeOf(_)
ShapeOf(v) ==
  CASE v.k = "int" -> [k |-> "int", w |-> v.w, s |-> v.s]
    [] v.k = "bool" -> [k |-> "bool"]
    [] v.k = "string" -> [k |-> "string"]
    [] v.k = "tuple" -> [k |-> "tuple", fs |-> [i \in 1..Len(v.fs) |-> ShapeOf(v.fs[i])]]
    [] v.k = "vector" -> [k |-> "vector", e |-> v.e]

\* a value-initialized object of a shape: the destination handed to deserialize
RECURSIVE Default(_)
Default(sh) ==
  CASE sh.k = "int" -> IntV(sh.w, sh.s, Zeros(sh.w))
    [] sh.k = "bool" -> BoolV(FALSE)
    [] sh.k = "string" -> SmallStr(<<>>)
    [] sh.k = "tuple" -> TupleV([i \in 1..Len(sh.fs) |-> Default(sh.fs[i])])
    [] sh.k = "vector" -> VectorV(sh.e, <<>>)

---------------------------------------------------------------------------
(* The serialize overload set.  Each operator returns [ec, C]: the          *)
(* std::error_code (0: success) and the channel after the call.  h is the  *)
(* byte order of the machine the call runs on.                             *)

RECURSIVE serialize(_, _, _), serializeSeq(_, _, _), serializeLoop(_, _, _)

\* serializeInt without the conversion to big-endian order
serializeInt_NoSwap(C, V, h) ==
  appendBytes(C, ObjectBytes(V.d, h), SizeOf(V.w))

\* serialize(RPCChannel &C, T V) for the eight integer types
serializeInt(C, V, h) ==
  LET V1 == byte_swap(V.d, h)
  IN appendBytes(C, ObjectBytes(V1, h), SizeOf(V.w))

\* serialize(RPCChannel &C, bool V)
serializeBool(C, V) ==
  LET VN == IF V.b THEN 1 ELSE 0
  IN appendBytes(C, <<VN>>, SizeOf(1))

\* serialize(RPCChannel &C, StringRef S), which serialize(C, std::string) calls
serializeStringRef(C, S, h) ==
  LET r == serializeInt(C, U64(S.size), h)
  IN IF r.ec # 0 THEN r
     ELSE appendBytes(r.C, S.head, Narrow32(S.size))

\* serialize(RPCChannel &C, const std::tuple<ArgTs...> &V) through
\* serializeTupleHelper
serializeTuple(C, V, h) == serializeSeq(C, V.fs, h)

\* serialize(RPCChannel &C, const ArrayRef<T> &A), which serialize(C,
\* std::vector<T>) calls
serializeArrayRef(C, A, h) ==
  LET r == serializeInt(C, U64(ToDigits(Len(A.es), 8)), h)
  IN IF r.ec # 0 THEN r
     ELSE serializeLoop(r.C, A.es, h)

\* for (const auto &E : A) if (auto EC = serialize(C, E)) return EC;
serializeLoop(C, Es, h) ==
  IF Es = <<>> THEN [ec |-> 0, C |-> C]
  ELSE LET r == serialize(C, Head(Es), h)
       IN IF r.ec # 0 THEN r
          ELSE serializeLoop(r.C, Tail(Es), h)

\* overload resolution on the static type of V
serialize(C, V, h) ==
  CASE V.k = "int" -> serializeInt(C, V, h)
    [] V.k = "bool" -> serializeBool(C, V)
    [] V.k = "string" -> serializeStringRef(C, V, h)
    [] V.k = "tuple" -> serializeTuple(C, V, h)
    [] V.k = "vector" -> serializeArrayRef(C, V, h)

\* serializeSeq that goes on to the next argument after an error
serializeSeq_IgnoresError(C, Args, h) ==
  IF Args = <<>> THEN [ec |-> 0, C |-> C]
  ELSE LET r == serialize(C, Head(Args), h)
           q == serializeSeq(r.C, Tail(Args), h)
       IN IF q.ec # 0 THEN q ELSE [ec |-> r.ec, C |-> q.C]

\* serializeSeq(RPCChannel &C, const T &Arg, const Ts &... Args) and the
\* overload for the empty list
serializeSeq(C, Args, h) ==
  IF Args = <<>> THEN [ec |-> 0, C |-> C]
  ELSE LET r == serialize(C, Head(Args), h)
       IN IF r.ec # 0 THEN r
          ELSE serializeSeq(r.C, Tail(Args), h)

---------------------------------------------------------------------------
(* The deserialize overload set.  Each operator takes the destination and  *)
(* returns [ec, C, v]: v is the destination after the call.                *)

RECURSIVE deserialize(_, _, _), deserializeSeq(_, _, _), deserializeLoop(_, _, _, _)

\* deserialize(RPCChannel &C, T &V) for the eight integer types
deserializeInt(C, V, h) ==
  LET r == readBytes(C, SizeOf(V.w))
  IN IF r.ec # 0 THEN [ec |-> r.ec, C |-> r.C, v |-> V]
     ELSE [ec |-> 0, C |-> r.C,
           v |-> [V EXCEPT !.d = byte_swap(ObjectBytes(r.data, h), h)]]

\* deserialize(RPCChannel &C, bool &V)
deserializeBool(C, V) ==
  LET r == readBytes(C, SizeOf(1))
  IN IF r.ec # 0 THEN [ec |-> r.ec, C |-> r.C, v |-> V]
     ELSE [ec |-> 0, C |-> r.C, v |-> BoolV(r.data[1] # 0)]

\* S.resize(Count) of a string that held at most MaxStrLen bytes: new bytes
\* are NUL; only a size below 2^32 has all its bytes written out
Resize(S, Count) ==
  IF SubSeq(Count, 1, 4) = Zeros(4)
    THEN StrV(Count,
              [i \in 1..ToNat(Count) |-> IF i <= Len(S.head) THEN S.head[i] ELSE 0],
              0)
    ELSE StrV(Count, S.head, 0)

\* deserialize(RPCChannel &C, std::string &S)
deserializeString(C, S, h) ==
  LET r == deserializeInt(C, U64(Zeros(8)), h)
      Count == r.v.d
      S1 == Resize(S, Count)
      q == readBytes(r.C, Narrow32(Count))
  IN IF r.ec # 0 THEN [ec |-> r.ec, C |-> r.C, v |-> S]
     ELSE [ec |-> q.ec, C |-> q.C,
           v |-> [S1 EXCEPT !.head = q.data \o SubSeq(@, Len(q.data) + 1, Len(@))]]

\* deserialize(RPCChannel &C, std::tuple<ArgTs...> &V) through
\* deserializeTupleHelper
deserializeTuple(C, V, h) ==
  LET r == deserializeSeq(C, V.fs, h)
  IN [ec |-> r.ec, C |-> r.C, v |-> TupleV(r.v)]

\* deserialize(RPCChannel &C, std::vector<T> &V)
deserializeVector(C, V, h) ==
  LET r == deserializeInt(C, U64(Zeros(8)), h)
      Count == ToNat(r.v.d)
      V1 == VectorV(V.e, [i \in 1..Count |->
                            IF i <= Len(V.es) THEN V.es[i] ELSE Default(V.e)])
  IN IF r.ec # 0 THEN [ec |-> r.ec, C |-> r.C, v |-> V]
     ELSE deserializeLoop(r.C, V1, 1, h)

\* the element loop of deserialize(vector) that drops an element's error
deserializeLoop_IgnoresError(C, V, i, h) ==
  IF i > Len(V.es) THEN [ec |-> 0, C |-> C, v |-> V]
  ELSE LET r == deserialize(C, V.es[i], h)
           V1 == [V EXCEPT !.es[i] = r.v]
       IN deserializeLoop(r.C, V1, i + 1, h)

\* for (auto &E : V) if (auto EC = deserialize(C, E)) return EC;
deserializeLoop(C, V, i, h) ==
  IF i > Len(V.es) THEN [ec |-> 0, C |-> C, v |-> V]
  ELSE LET r == deserialize(C, V.es[i], h)
           V1 == [V EXCEPT !.es[i] = r.v]
       IN IF r.ec # 0 THEN [ec |-> r.ec, C |-> r.C, v |-> V1]
          ELSE deserializeLoop(r.C, V1, i + 1, h)

\* overload resolution on the static type of V
deserialize(C, V, h) ==
  CASE V.k = "int" -> deserializeInt(C, V, h)
    [] V.k = "bool" -> deserializeBool(C, V)
    [] V.k = "string" -> deserializeString(C, V, h)
    [] V.k = "tuple" -> deserializeTuple(C, V, h)
    [] V.k = "vector" -> deserializeVector(C, V, h)

\* deserializeSeq(RPCChannel &C, T &Arg, Ts &... Args) and the overload for
\* the empty list
deserializeSeq(C, Args, h) ==
  IF Args = <<>> THEN [ec |-> 0, C |-> C, v |-> <<>>]
  ELSE LET r == deserialize(C, Head(Args), h)
           q == deserializeSeq(r.C, Tail(Args), h)
       IN IF r.ec # 0 THEN [ec |-> r.ec, C |-> r.C, v |-> <<r.v>> \o Tail(Args)]
          ELSE [ec |-> q.ec, C |-> q.C, v |-> <<r.v>> \o q.v]

---------------------------------------------------------------------------
(* The values the codec is run on. *)

Chars == {97, 98}

IntWidths == {1, 2, 4, 8}

\* zero, all ones (the unsigned maximum, the signed -1), the signed minimum,
\* the signed maximum, and 0x0102..0N
IntDigits(w) ==
  { Zeros(w),
    [i \in 1..w |-> 255],
    [i \in 1..w |-> IF i = 1 THEN 128 ELSE 0],
    [i \in 1..w |-> IF i = 1 THEN 127 ELSE 255],
    [i \in 1..w |-> i] }

IntVals ==
  UNION { { IntV(w, s, d) : s \in BOOLEAN, d \in IntDigits(w) } : w \in IntWidths }

BoolVals == { BoolV(b) : b \in BOOLEAN }

SmallStrVals == UNION { { SmallStr(bs) : bs \in [1..n -> Chars] } : n \in 0..MaxStrLen }

\* 2^32 + n as a 64-bit size
Two32Plus(n) == <<0, 0, 0, 1>> \o ToDigits(n, 4)

\* strings of 2^32 + n bytes, n <= 1: head is their first n bytes, every
\* later byte is fill
HugeStrVals ==
  UNION { { StrV(Two32Plus(n), bs, f) : bs \in [1..n -> Chars], f \in {0, 98} } : n \in 0..1 }

StrVals == SmallStrVals \cup HugeStrVals

U8Shape == [k |-> "int", w |-> 1, s |-> FALSE]
StrShape == [k |-> "string"]
PairShape == [k |-> "tuple", fs |-> <<U8Shape, [k |-> "bool"]>>]
VecU8Shape == [k |-> "vector", e |-> U8Shape]

\* the element values of each element shape a vector is built from
Elems(e) ==
  CASE e = U8Shape -> { U8(0), U8(255) }
    [] e = StrShape -> { SmallStr(<<>>), SmallStr(<<97, 98>>) }
    [] e = PairShape -> { TupleV(<<U8(7), BoolV(TRUE)>>), TupleV(<<U8(0), BoolV(FALSE)>>) }
    [] e = VecU8Shape -> { VectorV(U8Shape, <<>>), VectorV(U8Shape, <<U8(255)>>) }

ElemShapes == { U8Shape, StrShape, PairShape, VecU8Shape }

VectorVals ==
  UNION { UNION { { VectorV(e, es) : es \in [1..n -> Elems(e)] } : n \in 0..MaxVecLen }
          : e \in ElemShapes }

TupleVals ==
  { TupleV(<<>>),
    TupleV(<<U8(7), BoolV(TRUE)>>),
    TupleV(<<SmallStr(<<97, 98>>), IntV(4, FALSE, <<1, 2, 3, 4>>)>>),
    TupleV(<<VectorV(U8Shape, <<U8(0), U8(255)>>), SmallStr(<<97>>)>>),
    TupleV(<<TupleV(<<BoolV(FALSE)>>), VectorV(StrShape, <<SmallStr(<<98>>)>>)>>) }

Values == IntVals \cup BoolVals \cup StrVals \cup VectorVals \cup TupleVals

\* the values longer argument lists are made of
ArgVals ==
  { U8(7), BoolV(TRUE), SmallStr(<<97, 98>>), VectorV(U8Shape, <<U8(0), U8(255)>>) }

ArgLists ==
  { <<v>> : v \in Values } \cup UNION { [1..n -> ArgVals] : n \in 0..MaxArgs }

---------------------------------------------------------------------------
(* CodecSpec: one caller, one serializeSeq call, then one deserializeSeq   *)
(* call on the machine `peer` that reads the bytes the first call appended.*)

\* std::mutex readLock, writeLock: the owner of an unlocked mutex
NoThread == 0

ThreadsIdle ==
  /\ readLock = NoThread
  /\ writeLock = NoThread
  /\ pc = <<>>
  /\ sendSt = <<>>
  /\ recvSt = <<>>
  /\ todo = <<>>
  /\ rtodo = <<>>
  /\ nsect = <<>>
  /\ wire = <<>>

CodecInit ==
  /\ host \in Hosts
  /\ peer \in Hosts
  /\ args \in ArgLists
  /\ wFail \in 0..MaxFail
  /\ rFail \in 0..MaxFail
  /\ phase = "init"
  /\ chan = NewChannel(wFail, rFail)
  /\ ret = 0
  /\ got = <<>>
  /\ ThreadsIdle

\* the caller runs serializeSeq(C, args...)
SerializeSeqCall ==
  /\ phase = "init"
  /\ LET r == serializeSeq(chan, args, host)
     IN /\ chan' = r.C
        /\ ret' = r.ec
  /\ phase' = "sent"
  /\ UNCHANGED <<host, peer, args, wFail, rFail, got, threadVars>>

\* the bytes appended reach the peer, which runs deserializeSeq(C, dsts...)
\* with value-initialized destinations of the same static types
DeserializeSeqCall ==
  /\ phase = "sent"
  /\ ret = 0
  /\ LET dsts == [i \in 1..Len(args) |-> Default(ShapeOf(args[i]))]
         r == deserializeSeq([chan EXCEPT !.inp = Out(chan)], dsts, peer)
     IN /\ chan' = r.C
        /\ ret' = r.ec
        /\ got' = r.v
  /\ phase' = "received"
  /\ UNCHANGED <<host, peer, args, wFail, rFail, threadVars>>

CodecNext == SerializeSeqCall \/ DeserializeSeqCall

CodecSpec == CodecInit /\ [][CodecNext]_vars

---------------------------------------------------------------------------
(* Properties of the codec, checked under CodecSpec. *)

\* appendBytes (readBytes) calls a value's serialize (deserialize) makes when
\* none fails, counted from the shape of the value
RECURSIVE NCalls(_), SumCalls(_)
NCalls(v) ==
  CASE v.k = "int" -> 1
    [] v.k = "bool" -> 1
    [] v.k = "string" -> 2
    [] v.k = "tuple" -> SumCalls(v.fs)
    [] v.k = "vector" -> 1 + SumCalls(v.es)

SumCalls(vs) == IF vs = <<>> THEN 0 ELSE NCalls(Head(vs)) + SumCalls(Tail(vs))

\* the call the script fails first among n calls (0: none of them)
FirstFailure(f, n) == IF f # 0 /\ f <= n THEN f ELSE 0

\* a log of calls that stopped at the first failed one
StoppedAtFailure(log) ==
  \A j \in 1..Len(log) : log[j].ok <=> (j < Len(log) \/ ret = 0)

\* an `unsigned` widened back to 64 bits, to compare it with a length
Widen64(d4) == Zeros(4) \o d4

\* C4: round trip. On a channel that never fails, deserializing with the
\* same static shapes from the bytes serializeSeq appended succeeds, yields
\* values equal to the ones serialized and consumes exactly those bytes.
C4_RoundTrip ==
  (phase = "received" /\ wFail = 0 /\ rFail = 0)
    => (ret = 0 /\ got = args /\ chan.inp = <<>>)

\* the round trip of C4 for every value whose strings are shorter than 2^32
RECURSIVE Below2_32(_)
Below2_32(v) ==
  CASE v.k = "string" -> SubSeq(v.size, 1, 4) = Zeros(4)
    [] v.k = "tuple" -> \A i \in 1..Len(v.fs) : Below2_32(v.fs[i])
    [] v.k = "vector" -> \A i \in 1..Len(v.es) : Below2_32(v.es[i])
    [] OTHER -> TRUE

RoundTripBelow2_32 ==
  (phase = "received" /\ wFail = 0 /\ rFail = 0
     /\ \A i \in 1..Len(args) : Below2_32(args[i]))
    => (ret = 0 /\ got = args /\ chan.inp = <<>>)

C6_StringFraming ==
  (Len(args) = 1 /\ args[1].k = "string" /\ ret = 0) =>
    /\ phase = "sent" =>
         /\ Len(chan.wlog) = 2
         /\ chan.wlog[1].data = args[1].size
         /\ Widen64(chan.wlog[2].size) = args[1].size
    /\ phase = "received" =>
         /\ Len(chan.rlog) = 2
         /\ got[1].size = args[1].size
         /\ Widen64(chan.rlog[2].size) = got[1].size

\* the framing of C6 for lengths below 2^32, with the bytes that follow
StringFramingBelow2_32 ==
  (Len(args) = 1 /\ args[1].k = "string" /\ Below2_32(args[1]) /\ ret = 0) =>
    /\ phase = "sent" =>
         /\ Len(chan.wlog) = 2
         /\ Widen64(chan.wlog[2].size) = args[1].size
         /\ Out(chan) = args[1].size \o args[1].head
    /\ phase = "received" =>
         /\ Widen64(chan.rlog[2].size) = got[1].size
         /\ got[1] = args[1]

\* C7: fail-fast composition. serializeSeq (deserializeSeq) returns the
\* error of the first appendBytes (readBytes) call that fails, that call is
\* the last one made, so none is made for a later argument, and without a
\* failure every call of every argument is made; an empty list returns
\* success without a channel call.
C7_FailFast ==
  LET n == SumCalls(args)
  IN /\ phase = "sent" =>
          /\ ret = FirstFailure(wFail, n)
          /\ Len(chan.wlog) = IF ret # 0 THEN ret ELSE n
          /\ StoppedAtFailure(chan.wlog)
     /\ phase = "received" =>
          /\ ret = FirstFailure(rFail, n)
          /\ Len(chan.rlog) = IF ret # 0 THEN ret ELSE n
          /\ StoppedAtFailure(chan.rlog)
     /\ (phase # "init" /\ args = <<>>) =>
          (ret = 0 /\ chan.wlog = <<>> /\ chan.rlog = <<>>)

\* the first of two arguments fails, and the second one's calls are not made
C7_Witness ==
  /\ phase = "sent"
  /\ Len(args) = 2
  /\ ret # 0
  /\ ret <= NCalls(args[1])
  /\ Len(chan.wlog) < SumCalls(args)

\* the element of a vector whose calls include the f-th readBytes call
\* (the first call reads the count)
RECURSIVE FailingElement(_, _, _)
FailingElement(es, f, k) ==
  IF f <= 1 + SumCalls(SubSeq(es, 1, k)) THEN k ELSE FailingElement(es, f, k + 1)

\* C8: partial failure of a vector. When readBytes fails while element k of
\* the n read is decoded, deserialize returns that error, makes no further
\* readBytes call, leaves elements 1..k-1 decoded and elements k+1..n
\* untouched; when reading the count fails it returns that error and reads
\* no element.
C8_VectorPartialFailure ==
  (phase = "received" /\ Len(args) = 1 /\ args[1].k = "vector"
     /\ rFail # 0 /\ rFail <= NCalls(args[1])) =>
    /\ ret = rFail
    /\ Len(chan.rlog) = rFail
    /\ rFail = 1 => got[1].es = <<>>
    /\ rFail > 1 =>
         LET es == args[1].es
             k == FailingElement(es, rFail, 1)
         IN /\ Len(got[1].es) = Len(es)
            /\ \A i \in 1..Len(es) :
                 /\ i < k => got[1].es[i] = es[i]
                 /\ i > k => got[1].es[i] = Default(args[1].e)

\* the first of at least two elements fails
C8_Witness ==
  /\ phase = "received"
  /\ Len(args) = 1
  /\ args[1].k = "vector"
  /\ Len(args[1].es) >= 2
  /\ rFail = 2
  /\ ret = 2

---------------------------------------------------------------------------
(* Spec: NumThreads threads share one channel.  A thread is inside at most *)
(* one call at a time (pc).  Threads keep the caller's side of the         *)
(* protocol: a codec call is made inside a framed section of its           *)
(* direction, an end call ends a section the thread started, and a thread  *)
(* does not start a section of a direction it is already inside; a send    *)
(* section may be nested in a receive section and the other way round.     *)
(* A codec call sends or receives the message Msg(t).  Each appendBytes    *)
(* and readBytes call is one step and may fail; after a failed call        *)
(* serializeSeq and deserializeSeq return at once.  The threads run on one *)
(* little-endian machine.                                                  *)

Threads == 1..NumThreads

Msg(t) == TupleV(<<U8(t), BoolV(TRUE)>>)

\* framed sections threads 1..n have started
RECURSIVE SectionsStarted(_)
SectionsStarted(n) == IF n = 0 THEN 0 ELSE nsect[n] + SectionsStarted(n - 1)

\* the bytes of each appendBytes call serializeSeq(C, v) makes
AppendCalls(v, h) ==
  LET r == serializeSeq(NewChannel(0, 0), <<v>>, h)
  IN [i \in 1..Len(r.C.wlog) |-> r.C.wlog[i].data]

\* the number of readBytes calls deserializeSeq makes for a value like v
ReadCalls(v, h) ==
  LET w == serializeSeq(NewChannel(0, 0), <<v>>, h)
      r == deserializeSeq([w.C EXCEPT !.inp = Out(w.C)], <<Default(ShapeOf(v))>>, h)
  IN Len(r.C.rlog)

\* the appendBytes calls thread t's serializeSeq has still to make
PendingAppends(t) ==
  IF pc[t] = "idle" THEN AppendCalls(Msg(t), host) ELSE todo[t]

\* the number of readBytes calls thread t's deserializeSeq has still to make
PendingReads(t) ==
  IF pc[t] = "idle" THEN ReadCalls(Msg(t), host) ELSE rtodo[t]

CodecIdle ==
  /\ peer = host
  /\ args = <<>>
  /\ wFail = 0
  /\ rFail = 0
  /\ phase = "off"
  /\ chan = NewChannel(0, 0)
  /\ ret = 0
  /\ got = <<>>

Init ==
  /\ host = "little"
  /\ CodecIdle
  /\ readLock = NoThread
  /\ writeLock = NoThread
  /\ pc = [t \in Threads |-> "idle"]
  /\ sendSt = [t \in Threads |-> "out"]
  /\ recvSt = [t \in Threads |-> "out"]
  /\ todo = [t \in Threads |-> <<>>]
  /\ rtodo = [t \in Threads |-> 0]
  /\ nsect = [t \in Threads |-> 0]
  /\ wire = <<>>

\* a thread calls startSendMessage(C) and reaches C.getWriteLock().lock()
CallStartSendMessage(t) ==
  /\ pc[t] = "idle"
  /\ sendSt[t] = "out"
  /\ SectionsStarted(NumThreads) < MaxSections
  /\ pc' = [pc EXCEPT ![t] = "startSend"]
  /\ nsect' = [nsect EXCEPT ![t] = @ + 1]
  /\ UNCHANGED <<host, codecVars, readLock, writeLock, sendSt, recvSt, todo, rtodo, wire>>

\* startSendMessage that returns without locking
startSendMessage_NoLock(t) ==
  /\ pc[t] = "startSend"
  /\ pc' = [pc EXCEPT ![t] = "idle"]
  /\ sendSt' = [sendSt EXCEPT ![t] = "open"]
  /\ UNCHANGED <<host, codecVars, readLock, writeLock, recvSt, todo, rtodo, nsect, wire>>

\* startSendMessage: lock() returns once the mutex is free, and the call returns
startSendMessage(t) ==
  /\ pc[t] = "startSend"
  /\ writeLock = NoThread
  /\ writeLock' = t
  /\ pc' = [pc EXCEPT ![t] = "idle"]
  /\ sendSt' = [sendSt EXCEPT ![t] = "open"]
  /\ UNCHANGED <<host, codecVars, readLock, recvSt, todo, rtodo, nsect, wire>>

\* endSendMessage that unlocks the read lock
endSendMessage_WrongLock(t) ==
  /\ pc[t] = "idle"
  /\ sendSt[t] # "out"
  /\ readLock' = NoThread
  /\ sendSt' = [sendSt EXCEPT ![t] = "out"]
  /\ UNCHANGED <<host, codecVars, writeLock, pc, recvSt, todo, rtodo, nsect, wire>>

\* endSendMessage: unlock()
endSendMessage(t) ==
  /\ pc[t] = "idle"
  /\ sendSt[t] # "out"
  /\ writeLock' = NoThread
  /\ sendSt' = [sendSt EXCEPT ![t] = "out"]
  /\ UNCHANGED <<host, codecVars, readLock, pc, recvSt, todo, rtodo, nsect, wire>>

\* a thread calls startReceiveMessage(C) and reaches C.getReadLock().lock()
CallStartReceiveMessage(t) ==
  /\ pc[t] = "idle"
  /\ recvSt[t] = "out"
  /\ SectionsStarted(NumThreads) < MaxSections
  /\ pc' = [pc EXCEPT ![t] = "startRecv"]
  /\ nsect' = [nsect EXCEPT ![t] = @ + 1]
  /\ UNCHANGED <<host, codecVars, readLock, writeLock, sendSt, recvSt, todo, rtodo, wire>>

\* startReceiveMessage that locks the write lock
startReceiveMessage_LocksWriteLock(t) ==
  /\ pc[t] = "startRecv"
  /\ writeLock = NoThread
  /\ writeLock' = t
  /\ pc' = [pc EXCEPT ![t] = "idle"]
  /\ recvSt' = [recvSt EXCEPT ![t] = "open"]
  /\ UNCHANGED <<host, codecVars, readLock, sendSt, todo, rtodo, nsect, wire>>

\* startReceiveMessage: lock() returns once the mutex is free, and the call returns
startReceiveMessage(t) ==
  /\ pc[t] = "startRecv"
  /\ readLock = NoThread
  /\ readLock' = t
  /\ pc' = [pc EXCEPT ![t] = "idle"]
  /\ recvSt' = [recvSt EXCEPT ![t] = "open"]
  /\ UNCHANGED <<host, codecVars, writeLock, sendSt, todo, rtodo, nsect, wire>>

\* endReceiveMessage that unlocks the write lock
endReceiveMessage_WrongLock(t) ==
  /\ pc[t] = "idle"
  /\ recvSt[t] # "out"
  /\ writeLock' = NoThread
  /\ recvSt' = [recvSt EXCEPT ![t] = "out"]
  /\ UNCHANGED <<host, codecVars, readLock, pc, sendSt, todo, rtodo, nsect, wire>>

\* endReceiveMessage: unlock()
endReceiveMessage(t) ==
  /\ pc[t] = "idle"
  /\ recvSt[t] # "out"
  /\ readLock' = NoThread
  /\ recvSt' = [recvSt EXCEPT ![t] = "out"]
  /\ UNCHANGED <<host, codecVars, writeLock, pc, sendSt, todo, rtodo, nsect, wire>>

\* serializeSeq that unlocks the write lock when an appendBytes call fails
SerializeSeqAppend_UnlocksOnError(t) ==
  /\ \/ pc[t] = "serialize"
     \/ pc[t] = "idle" /\ sendSt[t] = "open"
  /\ \E calls \in {PendingAppends(t)}, ok \in BOOLEAN :
          IF ok
            THEN /\ wire' = Append(wire, [by |-> t, sect |-> nsect[t], data |-> Head(calls)])
                 /\ todo' = [todo EXCEPT ![t] = Tail(calls)]
                 /\ pc' = [pc EXCEPT ![t] = IF Len(calls) = 1 THEN "idle" ELSE "serialize"]
                 /\ sendSt' = [sendSt EXCEPT ![t] = IF Len(calls) = 1 THEN "ok" ELSE @]
                 /\ writeLock' = writeLock
            ELSE /\ wire' = wire
                 /\ todo' = [todo EXCEPT ![t] = <<>>]
                 /\ pc' = [pc EXCEPT ![t] = "idle"]
                 /\ sendSt' = [sendSt EXCEPT ![t] = "err"]
                 /\ writeLock' = NoThread
  /\ UNCHANGED <<host, codecVars, readLock, recvSt, rtodo, nsect>>

\* a thread inside a send section calls serializeSeq(C, Msg(t)), or its
\* running serializeSeq goes on: the next appendBytes call is made, and
\* serializeSeq returns the call's error, or success after the last call
SerializeSeqAppend(t) ==
  /\ \/ pc[t] = "serialize"
     \/ pc[t] = "idle" /\ sendSt[t] = "open"
  /\ \E calls \in {PendingAppends(t)}, ok \in BOOLEAN :
          IF ok
            THEN /\ wire' = Append(wire, [by |-> t, sect |-> nsect[t], data |-> Head(calls)])
                 /\ todo' = [todo EXCEPT ![t] = Tail(calls)]
                 /\ pc' = [pc EXCEPT ![t] = IF Len(calls) = 1 THEN "idle" ELSE "serialize"]
                 /\ sendSt' = [sendSt EXCEPT ![t] = IF Len(calls) = 1 THEN "ok" ELSE @]
            ELSE /\ wire' = wire
                 /\ todo' = [todo EXCEPT ![t] = <<>>]
                 /\ pc' = [pc EXCEPT ![t] = "idle"]
                 /\ sendSt' = [sendSt EXCEPT ![t] = "err"]
  /\ UNCHANGED <<host, codecVars, readLock, writeLock, recvSt, rtodo, nsect>>

\* a thread inside a receive section calls deserializeSeq(C, V) for a
\* message like Msg(t), or its running deserializeSeq goes on: the next
\* readBytes call is made, and deserializeSeq returns the call's error, or
\* success after the last call
DeserializeSeqRead(t) ==
  /\ \/ pc[t] = "deserialize"
     \/ pc[t] = "idle" /\ recvSt[t] = "open"
  /\ \E n \in {PendingReads(t)}, ok \in BOOLEAN :
          IF ok
            THEN /\ rtodo' = [rtodo EXCEPT ![t] = n - 1]
                 /\ pc' = [pc EXCEPT ![t] = IF n = 1 THEN "idle" ELSE "deserialize"]
                 /\ recvSt' = [recvSt EXCEPT ![t] = IF n = 1 THEN "ok" ELSE @]
            ELSE /\ rtodo' = [rtodo EXCEPT ![t] = 0]
                 /\ pc' = [pc EXCEPT ![t] = "idle"]
                 /\ recvSt' = [recvSt EXCEPT ![t] = "err"]
  /\ UNCHANGED <<host, codecVars, readLock, writeLock, sendSt, todo, nsect, wire>>

Thread(t) ==
  \/ CallStartSendMessage(t)
  \/ startSendMessage(t)
  \/ endSendMessage(t)
  \/ CallStartReceiveMessage(t)
  \/ startReceiveMessage(t)
  \/ endReceiveMessage(t)
  \/ SerializeSeqAppend(t)
  \/ DeserializeSeqRead(t)

Next == \E t \in Threads : Thread(t)

Spec == Init /\ [][Next]_vars

\* every thread that can take a step eventually takes one
FairSpec == Spec /\ \A t \in Threads : WF_vars(Thread(t))

---------------------------------------------------------------------------
(* Properties of the framing protocol, checked under Spec and FairSpec. *)

\* between a returned startSendMessage and the thread's endSendMessage
InSend(t) == sendSt[t] # "out"

\* between a returned startReceiveMessage and the thread's endReceiveMessage
InReceive(t) == recvSt[t] # "out"

\* C1: mutual exclusion. At most one thread is inside a send section and at
\* most one inside a receive section, and while a thread is inside one no
\* other thread's startSendMessage (startReceiveMessage) can return.
C1_MutualExclusion ==
  \A a, b \in Threads :
    /\ (InSend(a) /\ InSend(b)) => a = b
    /\ (InReceive(a) /\ InReceive(b)) => a = b
    /\ InSend(a) => ~ENABLED startSendMessage(b)
    /\ InReceive(a) => ~ENABLED startReceiveMessage(b)

\* a thread waits in startSendMessage while another is inside its send
\* section, and the same for the receive direction
C1_Witness ==
  \E a, b, c, d \in Threads :
    /\ InSend(a) /\ pc[b] = "startSend"
    /\ InReceive(c) /\ pc[d] = "startRecv"

\* the appendBytes calls of one framed section, in order
SectionCalls(t, n) ==
  LET Mine(e) == e.by = t /\ e.sect = n
      calls == SelectSeq(wire, Mine)
  IN [i \in 1..Len(calls) |-> calls[i].data]

IsPrefix(p, q) == Len(p) <= Len(q) /\ p = SubSeq(q, 1, Len(p))

\* C2: whole messages on the stream. The appendBytes calls of one framed
\* section are contiguous on the stream, none of another section falls
\* between them, and they are the calls of the section's message in order:
\* all of them once serializeSeq has returned success.
C2_NoInterleaving ==
  /\ \A i, m \in 1..Len(wire) :
       (i < m /\ wire[i].by = wire[m].by /\ wire[i].sect = wire[m].sect)
         => \A j \in i..m : wire[j].by = wire[i].by /\ wire[j].sect = wire[i].sect
  /\ \A t \in Threads :
       LET whole == AppendCalls(Msg(t), host)
       IN /\ \A n \in 1..nsect[t] : IsPrefix(SectionCalls(t, n), whole)
          /\ sendSt[t] = "ok" => \E n \in 1..nsect[t] : SectionCalls(t, n) = whole

\* two threads have each put a whole message on the stream
C2_Witness ==
  \E a, b \in Threads :
    /\ a # b
    /\ \E n \in 1..nsect[a] : SectionCalls(a, n) = AppendCalls(Msg(a), host)
    /\ \E n \in 1..nsect[b] : SectionCalls(b, n) = AppendCalls(Msg(b), host)

\* C3: independent directions. While a thread is inside a receive section
\* and the write lock is free, another thread's startSendMessage can return
\* at once; while a thread is inside a send section and the read lock is
\* free, another thread's startReceiveMessage can return at once.
C3_DirectionsIndependent ==
  \A r, s \in Threads :
    /\ (r # s /\ InReceive(r) /\ readLock = r /\ writeLock = NoThread
          /\ pc[s] = "startSend")
         => ENABLED startSendMessage(s)
    /\ (r # s /\ InSend(r) /\ writeLock = r /\ readLock = NoThread
          /\ pc[s] = "startRecv")
         => ENABLED startReceiveMessage(s)

\* a thread is at startSendMessage with the write lock free while another
\* thread is inside a receive section
C3_Witness ==
  \E r, s \in Threads :
    /\ r # s
    /\ InReceive(r)
    /\ readLock = r
    /\ writeLock = NoThread
    /\ pc[s] = "startSend"

CodecStep(t) ==
  \/ SerializeSeqAppend(t)
  \/ DeserializeSeqRead(t)

\* C9: the codec leaves the locks alone. No step of serializeSeq or
\* deserializeSeq, failed or not, changes the owner of either lock; a lock
\* leaves its owner only by that thread's endSendMessage
\* (endReceiveMessage), so after a failed codec call the section's lock
\* stays with the caller and other threads' start calls stay blocked.
C9_CodecKeepsLocks ==
  /\ [][ \A t \in Threads :
           /\ CodecStep(t) => UNCHANGED <<readLock, writeLock>>
           /\ (writeLock = t /\ writeLock' # t) => endSendMessage(t)
           /\ (readLock = t /\ readLock' # t) => endReceiveMessage(t)
       ]_vars
  /\ [](\A t, b \in Threads :
          /\ sendSt[t] = "err" => (writeLock = t /\ ~ENABLED startSendMessage(b))
          /\ recvSt[t] = "err" => (readLock = t /\ ~ENABLED startReceiveMessage(b)))

\* a codec call has failed inside a send section while another thread waits
\* in startSendMessage
C9_Witness ==
  \E a, b \in Threads :
    /\ sendSt[a] = "err"
    /\ writeLock = a
    /\ pc[b] = "startSend"

\* a thread waits for a lock
Waiting(t) == pc[t] \in {"startSend", "startRecv"}

\* two threads each hold one lock and wait for the other's: one nested a
\* send section in a receive section, the other a receive section in a send
\* section
CrossWait ==
  \E a, b \in Threads :
    /\ a # b
    /\ readLock = a /\ pc[a] = "startSend"
    /\ writeLock = b /\ pc[b] = "startRecv"

====
